---- MODULE Spec2Model ----
(***************************************************************************)
(* A model of the synthetic CSV generator (generate_full_csvs.py) over the  *)
(* schema declared in models.py.                                            *)
(*                                                                          *)
(* The state is the generator's: the process-wide key pool pk_values, the   *)
(* locals of main (the table, row and column reached, the row being built,  *)
(* the rows of the table so far), the CSV files written and the lines       *)
(* printed.  main is one sequential procedure; its steps are the actions.   *)
(*                                                                          *)
(* The schema is the generator's input.  A run starts from one of           *)
(*   - the schemas of the end-to-end scenarios (parent/child, integer       *)
(*     keys, decimal columns, a schema listed in the wrong order), and      *)
(*   - for every foreign key of models.py, the tables of models.py it       *)
(*     joins, in the order get_tables_in_order() lists them, with their     *)
(*     key columns (primary keys and the foreign keys between them).        *)
(* Synthesis of a column reads nothing but the pool of the table the column *)
(* references, so a run over the joined tables goes through the same steps  *)
(* for them as a run over all of models.py.                                 *)
(*                                                                          *)
(* Values are records [t, lit, n, s]: t is the Python type of the value,    *)
(* lit the kind of text a str holds, n a number, s the characters of a      *)
(* formatted decimal.  uuid.uuid4() is modelled as a value never drawn      *)
(* before (a counter); random.randint(a, b) draws from both ends of the     *)
(* range and the value next to the lower end.                               *)
(***************************************************************************)
EXTENDS Integers, Sequences, FiniteSets, TLC

\* Rows generated per table (NUM_ROWS = 50 in the source; a run parameter).
NUM_ROWS == 3

\* random_decimal's default max_whole.
MaxWhole == 99999

\* The scale generate_value_for_column uses when the column declares none.
DefaultScale == 2

----------------------------------------------------------------------------
\* Values

NoneVal == [t |-> "NoneType", lit |-> "", n |-> 0, s |-> <<>>]

IntVal(k) == [t |-> "int", lit |-> "", n |-> k, s |-> <<>>]

BoolVal(b) == [t |-> "bool", lit |-> "", n |-> IF b THEN 1 ELSE 0, s |-> <<>>]

\* str(uuid.uuid4()): the text of the k-th identifier drawn in the process.
UuidVal(k) == [t |-> "str", lit |-> "uuid", n |-> k, s |-> <<>>]

\* A text value of the given kind whose characters the model does not follow.
TextVal(kind) == [t |-> "str", lit |-> kind, n |-> 0, s |-> <<>>]

\* A text given by its characters (digits 0..9 and the marks below).
CharsVal(chars) == [t |-> "str", lit |-> "chars", n |-> 0, s |-> chars]

\* Characters other than digits in a formatted decimal:  .  E  -
DOT == 10
CHAR_E == 11
MINUS == 12

\* str(v) for the values that reach it.
Str(v) ==
    CASE v.t = "str" -> v
      [] v.t = "int" -> [t |-> "str", lit |-> "int", n |-> v.n, s |-> <<>>]
      [] v.t = "bool" -> TextVal(IF v.n = 1 THEN "True" ELSE "False")
      [] OTHER -> TextVal("None")

Range(f) == {f[x] : x \in DOMAIN f}

----------------------------------------------------------------------------
\* Schema: a table is a name and its columns in declaration order.

Col(name, type, pk) ==
    [name |-> name, type |-> type, primary_key |-> pk,
     foreign_keys |-> <<>>, scale |-> <<>>]

FkCol(name, type, pk, ref_table, ref_col) ==
    [name |-> name, type |-> type, primary_key |-> pk,
     foreign_keys |-> << <<ref_table, ref_col>> >>, scale |-> <<>>]

\* A Numeric column; scale is <<>> when none is declared, else <<S>>.
NumCol(name, scale) ==
    [name |-> name, type |-> "numeric", primary_key |-> FALSE,
     foreign_keys |-> <<>>, scale |-> scale]

Table(name, columns) == [name |-> name, columns |-> columns]

\* The tables of models.py, with their key columns.

Address ==
    Table("addresses", <<
        Col("address_id", "uuid", TRUE),
        FkCol("company_id", "uuid", FALSE, "companies", "company_id") >>)

CompanyGSTIN ==
    Table("company_gstins", <<
        Col("gstin_id", "uuid", TRUE),
        FkCol("company_id", "uuid", FALSE, "companies", "company_id"),
        FkCol("address_id", "uuid", FALSE, "addresses", "address_id") >>)

Company ==
    Table("companies", <<
        Col("company_id", "uuid", TRUE) >>)

UserCompanyRole ==
    Table("user_company_roles", <<
        Col("erp_user_id", "uuid", TRUE),
        FkCol("company_id", "uuid", TRUE, "companies", "company_id"),
        FkCol("role_id", "uuid", TRUE, "roles", "role_id") >>)

Role ==
    Table("roles", <<
        Col("role_id", "uuid", TRUE),
        FkCol("company_id", "uuid", FALSE, "companies", "company_id") >>)

Department ==
    Table("departments", <<
        Col("department_id", "uuid", TRUE),
        FkCol("company_id", "uuid", FALSE, "companies", "company_id") >>)

Account ==
    Table("accounts", <<
        Col("account_id", "uuid", TRUE),
        FkCol("company_id", "uuid", FALSE, "companies", "company_id"),
        FkCol("parent_account_id", "uuid", FALSE, "accounts", "account_id") >>)

Transaction ==
    Table("transactions", <<
        Col("transaction_id", "uuid", TRUE),
        FkCol("company_id", "uuid", FALSE, "companies", "company_id"),
        FkCol("account_id", "uuid", FALSE, "accounts", "account_id") >>)

Customer ==
    Table("customers", <<
        Col("customer_id", "uuid", TRUE),
        FkCol("company_id", "uuid", FALSE, "companies", "company_id") >>)

Vendor ==
    Table("vendors", <<
        Col("vendor_id", "uuid", TRUE),
        FkCol("company_id", "uuid", FALSE, "companies", "company_id") >>)

Product ==
    Table("products", <<
        Col("product_id", "uuid", TRUE),
        FkCol("company_id", "uuid", FALSE, "companies", "company_id") >>)

Inventory ==
    Table("inventory", <<
        Col("inventory_id", "uuid", TRUE),
        FkCol("company_id", "uuid", FALSE, "companies", "company_id"),
        FkCol("product_id", "uuid", FALSE, "products", "product_id"),
        FkCol("address_id", "uuid", FALSE, "addresses", "address_id") >>)

SalesOrder ==
    Table("sales_orders", <<
        Col("order_id", "uuid", TRUE),
        FkCol("company_id", "uuid", FALSE, "companies", "company_id"),
        FkCol("customer_id", "uuid", FALSE, "customers", "customer_id") >>)

SalesOrderItem ==
    Table("sales_order_items", <<
        Col("item_id", "uuid", TRUE),
        FkCol("company_id", "uuid", FALSE, "companies", "company_id"),
        FkCol("order_id", "uuid", FALSE, "sales_orders", "order_id"),
        FkCol("product_id", "uuid", FALSE, "products", "product_id") >>)

PurchaseOrder ==
    Table("purchase_orders", <<
        Col("po_id", "uuid", TRUE),
        FkCol("company_id", "uuid", FALSE, "companies", "company_id"),
        FkCol("vendor_id", "uuid", FALSE, "vendors", "vendor_id") >>)

PurchaseOrderItem ==
    Table("purchase_order_items", <<
        Col("item_id", "uuid", TRUE),
        FkCol("company_id", "uuid", FALSE, "companies", "company_id"),
        FkCol("po_id", "uuid", FALSE, "purchase_orders", "po_id"),
        FkCol("product_id", "uuid", FALSE, "products", "product_id") >>)

Invoice ==
    Table("invoices", <<
        Col("invoice_id", "uuid", TRUE),
        FkCol("company_id", "uuid", FALSE, "companies", "company_id"),
        FkCol("order_id", "uuid", FALSE, "sales_orders", "order_id"),
        FkCol("customer_id", "uuid", FALSE, "customers", "customer_id") >>)

Payable ==
    Table("payables", <<
        Col("payable_id", "uuid", TRUE),
        FkCol("company_id", "uuid", FALSE, "companies", "company_id"),
        FkCol("po_id", "uuid", FALSE, "purchase_orders", "po_id"),
        FkCol("vendor_id", "uuid", FALSE, "vendors", "vendor_id") >>)

FixedAsset ==
    Table("fixed_assets", <<
        Col("asset_id", "uuid", TRUE),
        FkCol("company_id", "uuid", FALSE, "companies", "company_id"),
        FkCol("vendor_id", "uuid", FALSE, "vendors", "vendor_id"),
        FkCol("address_id", "uuid", FALSE, "addresses", "address_id") >>)

\* employees with department_id referencing a column of departments that is
\* not its key.
Employee_RefsOtherColumn ==
    Table("employees", <<
        Col("employee_id", "uuid", TRUE),
        FkCol("company_id", "uuid", FALSE, "companies", "company_id"),
        FkCol("department_id", "uuid", FALSE, "departments", "company_id") >>)

Employee ==
    Table("employees", <<
        Col("employee_id", "uuid", TRUE),
        FkCol("company_id", "uuid", FALSE, "companies", "company_id"),
        FkCol("department_id", "uuid", FALSE, "departments", "department_id") >>)

Payroll ==
    Table("payroll", <<
        Col("payroll_id", "uuid", TRUE),
        FkCol("company_id", "uuid", FALSE, "companies", "company_id"),
        FkCol("employee_id", "uuid", FALSE, "employees", "employee_id") >>)

AuditLog ==
    Table("audit_logs", <<
        Col("log_id", "uuid", TRUE),
        FkCol("company_id", "uuid", FALSE, "companies", "company_id") >>)

Subscription ==
    Table("subscriptions", <<
        Col("subscription_id", "uuid", TRUE),
        FkCol("company_id", "uuid", FALSE, "companies", "company_id") >>)

Payment ==
    Table("payments", <<
        Col("payment_id", "uuid", TRUE),
        FkCol("subscription_id", "uuid", FALSE, "subscriptions", "subscription_id") >>)

EmailVerification ==
    Table("email_verifications", <<
        Col("verification_id", "uuid", TRUE) >>)

PhoneVerification ==
    Table("phone_verifications", <<
        Col("verification_id", "uuid", TRUE) >>)

FileExport ==
    Table("file_exports", <<
        Col("export_id", "uuid", TRUE),
        FkCol("company_id", "uuid", FALSE, "companies", "company_id") >>)

\* get_tables_in_order() listing employees before the departments they reference.
get_tables_in_order_EmployeeFirst ==
    << Company, Role,
       Address, UserCompanyRole, Employee, Department, Account, Customer, Vendor,
       Product, CompanyGSTIN,
       Transaction, Inventory, SalesOrder, PurchaseOrder, FixedAsset,
       SalesOrderItem, PurchaseOrderItem, Invoice, Payable, Payroll, AuditLog,
       Subscription, Payment, EmailVerification, PhoneVerification, FileExport >>

\* models.get_tables_in_order()
get_tables_in_order ==
    << Company, Role,
       Address, UserCompanyRole, Department, Account, Customer, Vendor,
       Product, CompanyGSTIN,
       Transaction, Inventory, SalesOrder, PurchaseOrder, FixedAsset, Employee,
       SalesOrderItem, PurchaseOrderItem, Invoice, Payable, Payroll, AuditLog,
       Subscription, Payment, EmailVerification, PhoneVerification, FileExport >>

----------------------------------------------------------------------------
\* Input schemas

\* The two-table scenario: Parent(parent_id, name), Child(child_id,
\* parent_id -> Parent, label).
ParentChild ==
    << Table("parent", <<
           Col("parent_id", "uuid", TRUE),
           Col("name", "string", FALSE) >>),
       Table("child", <<
           Col("child_id", "uuid", TRUE),
           FkCol("parent_id", "uuid", FALSE, "parent", "parent_id"),
           Col("label", "string", FALSE) >>) >>

\* Tables with an integer primary key, one of them referenced by the other.
IntegerKeys ==
    << Table("ledger", <<
           Col("id", "integer", TRUE),
           Col("is_open", "boolean", FALSE) >>),
       Table("entry", <<
           Col("id", "integer", TRUE),
           FkCol("ledger_id", "integer", FALSE, "ledger", "id"),
           Col("posted_on", "date", FALSE) >>) >>

\* Decimal columns: a declared scale of 2 and of 0, and a Float (no scale).
DecimalScale2 ==
    << Table("price", <<
           Col("price_id", "uuid", TRUE), NumCol("amount", <<2>>) >>) >>

DecimalScale0 ==
    << Table("stock", <<
           Col("stock_id", "uuid", TRUE), NumCol("units", <<0>>) >>) >>

DecimalNoScale ==
    << Table("place", <<
           Col("place_id", "uuid", TRUE), NumCol("latitude", <<>>) >>) >>

\* An ordering violation: the referencing table is listed before the table
\* it references, with a foreign-key column of each kind of type, one of
\* them part of the primary key.
Misordered ==
    << Table("orphan", <<
           FkCol("tag", "string", TRUE, "owner", "tag"),
           FkCol("owner_id", "uuid", FALSE, "owner", "owner_id"),
           FkCol("owner_no", "integer", FALSE, "owner", "owner_no"),
           FkCol("owner_since", "date", FALSE, "owner", "since") >>),
       Table("owner", <<
           Col("owner_id", "uuid", TRUE),
           Col("tag", "string", FALSE),
           Col("owner_no", "integer", FALSE),
           Col("since", "date", FALSE) >>) >>

\* An ordering violation with a decimal foreign-key column.
MisorderedNumeric ==
    << Table("charge", <<
           Col("charge_id", "uuid", TRUE),
           FkCol("rate", "numeric", FALSE, "tariff", "rate") >>),
       Table("tariff", <<
           Col("tariff_id", "uuid", TRUE), NumCol("rate", <<2>>) >>) >>

\* An integer primary key that is also a foreign key, and a string column
\* that references an integer key.
Precedence ==
    << Table("base", <<
           Col("id", "integer", TRUE),
           Col("flag", "boolean", FALSE) >>),
       Table("ext", <<
           FkCol("id", "integer", TRUE, "base", "id"),
           FkCol("base_ref", "string", FALSE, "base", "id"),
           Col("note", "string", FALSE),
           Col("seen_at", "datetime", FALSE) >>) >>

ScenarioSchemas ==
    { ParentChild, IntegerKeys, DecimalScale2, DecimalScale0, DecimalNoScale,
      Misordered, MisorderedNumeric, Precedence }

\* The tables a column references: get_foreign_keys(col), table names only.
RefTables(col) == {col.foreign_keys[k][1] : k \in DOMAIN col.foreign_keys}

\* The tables of models.py named in S, in the order of get_tables_in_order(),
\* with the columns that reference nothing outside S.
SubSchema(S) ==
    LET keep(col) == RefTables(col) \subseteq S
        cut(t) == Table(t.name, SelectSeq(t.columns, keep))
        inS(t) == t.name \in S
        sel == SelectSeq(get_tables_in_order, inS)
    IN  [k \in DOMAIN sel |-> cut(sel[k])]

\* One schema per foreign key of models.py: the table and the one it references.
ModelsSchemas ==
    { SubSchema({t.name, r}) :
        <<t, r>> \in { <<t, r>> \in Range(get_tables_in_order) \X
                           {x.name : x \in Range(get_tables_in_order)} :
                       \E k \in DOMAIN t.columns : r \in RefTables(t.columns[k]) } }

Schemas == ScenarioSchemas \cup ModelsSchemas

----------------------------------------------------------------------------
\* Column types (the isinstance tests on col.type)

is_uuid_col(col) == col.type = "uuid"

is_integer_col(col) == col.type = "integer"

is_string_col(col) == col.type = "string"

is_boolean_col(col) == col.type = "boolean"

is_date_col(col) == col.type = "date"

is_datetime_col(col) == col.type = "datetime"

is_numeric_col(col) == col.type = "numeric"

----------------------------------------------------------------------------
\* Random draws and decimal formatting

\* random.randint(a, b), a <= b: the ends of the range and a + 1.
randint(a, b) == {x \in {a, a + 1, b} : x <= b}

\* str(n) for n >= 0, as its digits.
RECURSIVE Digits(_)
Digits(n) == IF n < 10 THEN <<n>> ELSE Digits(n \div 10) \o <<n % 10>>

\* s.zfill(width) for a text of digits.
RECURSIVE zfill(_, _)
zfill(s, width) == IF Len(s) >= width THEN s ELSE zfill(<<0>> \o s, width)

\* s without its leading zeros, one digit at least: str(int(s)).
RECURSIVE StripZeros(_)
StripZeros(s) ==
    IF Len(s) > 1 /\ Head(s) = 0 THEN StripZeros(Tail(s)) ELSE s

Zeros(k) == [j \in 1..k |-> 0]

\* decimal.Decimal("<whole>.<frac>"): coefficient digits and exponent.
Decimal(whole, frac) ==
    [int |-> StripZeros(whole \o frac), exp |-> 0 - Len(frac)]

\* str(d) of a Decimal with exp <= 0 (Decimal.__str__): plain notation while
\* the leftmost digit is no further right than the sixth place, else
\* scientific.
DecimalStr(d) ==
    LET leftdigits == d.exp + Len(d.int)
        dotplace == IF d.exp <= 0 /\ leftdigits > -6 THEN leftdigits ELSE 1
        intpart == IF dotplace <= 0 THEN <<0>>
                   ELSE IF dotplace >= Len(d.int)
                        THEN d.int \o Zeros(dotplace - Len(d.int))
                        ELSE SubSeq(d.int, 1, dotplace)
        fracpart == IF dotplace <= 0 THEN <<DOT>> \o Zeros(0 - dotplace) \o d.int
                    ELSE IF dotplace >= Len(d.int) THEN <<>>
                         ELSE <<DOT>> \o SubSeq(d.int, dotplace + 1, Len(d.int))
        exppart == IF leftdigits = dotplace THEN <<>>
                   ELSE <<CHAR_E, MINUS>> \o Digits(dotplace - leftdigits)
    IN  intpart \o fracpart \o exppart

\* random_decimal(scale, max_whole): the Decimals it can return.
random_decimal(scale, max_whole) ==
    { Decimal(Digits(whole), zfill(Digits(frac), scale)) :
        whole \in randint(0, max_whole), frac \in randint(0, 10^scale - 1) }

\* The text a string column gets (the column-name heuristics and Faker).
FakeText(col) == TextVal("text")

\* generate_value_for_column drawing a new identifier for a UUID foreign key
\* whatever the pool holds.
generate_value_for_column_IgnoresPool(col, pools, fresh) ==
    IF is_uuid_col(col) THEN {UuidVal(fresh)}
    ELSE IF is_integer_col(col)
         THEN {IntVal(k) : k \in randint(1, NUM_ROWS * 10)}
    ELSE IF is_boolean_col(col) THEN {BoolVal(TRUE), BoolVal(FALSE)}
    ELSE {TextVal("text")}

\* generate_value_for_column falling back to a random integer for every
\* foreign-key column that is not a UUID column.
generate_value_for_column_IntFallback(col, pools, fresh) ==
    IF Len(col.foreign_keys) > 0
    THEN LET ref_table == col.foreign_keys[1][1]
         IN  IF ref_table \notin DOMAIN pools \/ pools[ref_table] = <<>>
             THEN IF is_uuid_col(col) THEN {UuidVal(fresh)}
                  ELSE {IntVal(k) : k \in randint(1, NUM_ROWS * 10)}
             ELSE Range(pools[ref_table])
    ELSE generate_value_for_column_IgnoresPool(col, pools, fresh)

\* generate_value_for_column(col, table_name): the values it can return, given
\* the pools and the number of the next identifier uuid4 draws.
generate_value_for_column(col, pools, fresh) ==
    IF Len(col.foreign_keys) > 0
    THEN LET ref_table == col.foreign_keys[1][1]
         IN  IF ref_table \notin DOMAIN pools \/ pools[ref_table] = <<>>
             THEN IF is_uuid_col(col) THEN {UuidVal(fresh)}
                  ELSE IF is_integer_col(col)
                       THEN {IntVal(k) : k \in randint(1, NUM_ROWS * 10)}
                       ELSE {NoneVal}
             ELSE Range(pools[ref_table])
    ELSE IF is_uuid_col(col) THEN {UuidVal(fresh)}
    ELSE IF is_integer_col(col)
         THEN {IntVal(k) : k \in randint(1, NUM_ROWS * 10)}
    ELSE IF is_boolean_col(col) THEN {BoolVal(TRUE), BoolVal(FALSE)}
    ELSE IF is_date_col(col) THEN {TextVal("date")}
    ELSE IF is_datetime_col(col) THEN {TextVal("datetime")}
    ELSE IF is_numeric_col(col)
         THEN LET sc == IF col.scale # <<>> THEN col.scale[1] ELSE DefaultScale
              IN  {CharsVal(DecimalStr(d)) : d \in random_decimal(sc, MaxWhole)}
    ELSE {FakeText(col)}

\* row_to_csv_value(value)
row_to_csv_value(value) ==
    IF value.t = "NoneType" THEN TextVal("")
    ELSE IF value.t = "bool"
         THEN TextVal(IF value.n = 1 THEN "true" ELSE "false")
         ELSE Str(value)

----------------------------------------------------------------------------
\* The generator's state

VARIABLES
    schema,          \* the tables the schema source lists, in its order
    explicit,        \* what models.get_tables_in_order offers main
    pc,              \* where main is
    ordered_tables,  \* main's ordered_tables
    tblIdx,          \* the place in ordered_tables of the table reached
    i,               \* the row index of the inner loop
    colIdx,          \* the place in columns of the column reached
    row,             \* the row being built: column name -> value
    rows,            \* the rows built for the table reached
    pk_values,       \* the key pool: table name -> keys in row order
    nextUuid,        \* the number of the next identifier uuid4 draws
    files,           \* the output directory: table name -> header and lines
    stdout           \* the lines printed

genVars == <<schema, explicit, pc, ordered_tables, tblIdx, i, colIdx, row, rows,
             pk_values, nextUuid, files, stdout>>

\* The loader's state (import_data_to_db.py, a process of its own)
VARIABLES
    environ,         \* the environment: USER, PASSWORD, HOST, PORT, DATABASE
    engine,          \* the connection string the engine was created with
    csv_folder,      \* the CSV files in the folder: table name -> file
    database,        \* the rows committed: table name -> rows
    ldPc,            \* where the loader is
    ldIdx,           \* the place in table_order of the table reached
    ldStdout         \* the lines the loader printed

loaderVars == <<environ, engine, csv_folder, database, ldPc, ldIdx, ldStdout>>

\* The state of a call of generate_value_for_column for a string column
VARIABLES
    str_col,         \* the column handed to the call
    str_val,         \* what the call returned
    strPc            \* "call" before the call, "returned" after it

stringVars == <<str_col, str_val, strPc>>

\* A String(length) column that has no foreign key.
StringCol(table_name_, name, length) ==
    [table |-> table_name_, name |-> name, length |-> length]

\* No call for a string column is followed.
StringIdle ==
    /\ str_col = StringCol("", "", 0)
    /\ str_val = NoneVal
    /\ strPc = "idle"

EmptyMap == [x \in {} |-> <<>>]

\* d[k] = v, the other keys of d kept.
Put(d, k, v) == [x \in DOMAIN d \cup {k} |-> IF x = k THEN v ELSE d[x]]

\* A setdefault that starts the dictionary afresh.
setdefault_Clear(d, k, v) == Put(EmptyMap, k, v)

\* d.setdefault(k, v)
setdefault(d, k, v) == IF k \in DOMAIN d THEN d ELSE Put(d, k, v)

\* Sequential keys starting at 0.
SequentialKey_ZeroBased(idx) == IntVal(idx)

\* The value of an integer primary-key column in the row of index idx.
SequentialKey(idx) == IntVal(idx + 1)

\* pk_col taken as the last primary-key column.
first_pk_col_Last(cols) ==
    LET pks == SelectSeq(cols, LAMBDA c : c.primary_key)
    IN  IF pks # <<>> THEN <<pks[Len(pks)]>> ELSE <<>>

\* pk_col of main: the first primary-key column, <<>> when there is none.
first_pk_col(cols) ==
    LET pks == SelectSeq(cols, LAMBDA c : c.primary_key)
    IN  IF pks # <<>> THEN <<pks[1]>> ELSE <<>>

\* What a run may find of models.get_tables_in_order: the list of tables, no
\* such attribute, a call that raises, or an empty (or non-list) result.
ExplicitOrderings == {"list", "missing", "raises", "empty"}

\* A get_tables_order whose fallback swallows the error and returns no table.
get_tables_order_Swallow(how, s) ==
    IF how = "list" /\ Len(s) > 0
    THEN [raised |-> FALSE, tables |-> s]
    ELSE [raised |-> FALSE, tables |-> <<>>]

\* get_tables_order(): the author's ordering when there is one.  Otherwise
\* the comprehension over Base.metadata.sorted_tables runs: it looks every
\* Table object up in Base.metadata.tables, a dictionary keyed by table name,
\* and raises KeyError at the first table.
get_tables_order(how, s) ==
    IF how = "list" /\ Len(s) > 0
    THEN [raised |-> FALSE, tables |-> s]
    ELSE IF s = <<>>
         THEN [raised |-> FALSE, tables |-> <<>>]
         ELSE [raised |-> TRUE, tables |-> <<>>]

tbl == ordered_tables[tblIdx]

table_name == tbl.name

columns == tbl.columns

GenInit ==
    /\ schema \in Schemas
    /\ explicit \in ExplicitOrderings
    /\ pc = "main"
    /\ ordered_tables = <<>>
    /\ tblIdx = 0
    /\ i = 0
    /\ colIdx = 0
    /\ row = EmptyMap
    /\ rows = <<>>
    /\ pk_values = EmptyMap
    /\ nextUuid = 1
    /\ files = EmptyMap
    /\ stdout = <<>>

\* main, up to the loop over the tables.
Start ==
    /\ pc = "main"
    /\ stdout' = Append(stdout, <<"Starting CSV generation...">>)
    /\ LET ordered_models == get_tables_order(explicit, schema)
       IN  IF ordered_models.raised
           THEN /\ pc' = "aborted"
                /\ UNCHANGED <<ordered_tables, tblIdx>>
           ELSE /\ ordered_tables' = ordered_models.tables
                /\ tblIdx' = 1
                /\ pc' = "table"
    /\ UNCHANGED <<schema, explicit, i, colIdx, row, rows, pk_values, nextUuid,
                   files>>
    /\ UNCHANGED <<loaderVars, stringVars>>

\* The head of the loop body for a table: its pool is created if it has none.
BeginTable ==
    /\ pc = "table"
    /\ tblIdx <= Len(ordered_tables)
    /\ pk_values' = setdefault(pk_values, table_name, <<>>)
    /\ rows' = <<>>
    /\ i' = 0
    /\ row' = EmptyMap
    /\ colIdx' = 1
    /\ pc' = "col"
    /\ stdout' = Append(stdout, <<"Generating for table", table_name>>)
    /\ UNCHANGED <<schema, explicit, ordered_tables, tblIdx, nextUuid, files>>
    /\ UNCHANGED <<loaderVars, stringVars>>

\* The loop over the columns with the foreign key looked at before the
\* integer primary key.
GenColumn_FkFirst ==
    /\ pc = "col"
    /\ LET col == columns[colIdx]
       IN  \E val \in IF col.primary_key /\ is_integer_col(col)
                         /\ Len(col.foreign_keys) = 0
                      THEN {SequentialKey(i)}
                      ELSE generate_value_for_column(col, pk_values, nextUuid) :
             /\ row' = Put(row, col.name,
                           IF is_numeric_col(col) THEN Str(val) ELSE val)
             /\ nextUuid' = IF val = UuidVal(nextUuid) THEN nextUuid + 1
                            ELSE nextUuid
    /\ colIdx' = colIdx + 1
    /\ pc' = IF colIdx = Len(columns) THEN "rowend" ELSE "col"
    /\ UNCHANGED <<schema, explicit, ordered_tables, tblIdx, i, rows, pk_values,
                   files, stdout>>
    /\ UNCHANGED <<loaderVars, stringVars>>

\* One pass of the loop over the columns of a row.
GenColumn ==
    /\ pc = "col"
    /\ LET col == columns[colIdx]
       IN  \E val \in IF col.primary_key /\ is_integer_col(col)
                      THEN {SequentialKey(i)}
                      ELSE generate_value_for_column(col, pk_values, nextUuid) :
             /\ row' = Put(row, col.name,
                           IF ~(col.primary_key /\ is_integer_col(col))
                              /\ is_numeric_col(col)
                           THEN Str(val) ELSE val)
             /\ nextUuid' = IF val = UuidVal(nextUuid) THEN nextUuid + 1
                            ELSE nextUuid
    /\ colIdx' = colIdx + 1
    /\ pc' = IF colIdx = Len(columns) THEN "rowend" ELSE "col"
    /\ UNCHANGED <<schema, explicit, ordered_tables, tblIdx, i, rows, pk_values,
                   files, stdout>>
    /\ UNCHANGED <<loaderVars, stringVars>>

\* The end of a row: its key goes to the pool, the row to rows.
EndRow ==
    /\ pc = "rowend"
    /\ LET pk_cols == first_pk_col(columns)
           pk_col == pk_cols[1]
           got == row[pk_col.name]
           backstop == got = NoneVal /\ (is_uuid_col(pk_col) \/ is_integer_col(pk_col))
           pk_val == IF got # NoneVal THEN got
                     ELSE IF is_uuid_col(pk_col) THEN UuidVal(nextUuid)
                     ELSE IF is_integer_col(pk_col) THEN IntVal(i + 1)
                     ELSE got
           done == IF backstop THEN Put(row, pk_col.name, pk_val) ELSE row
       IN  IF pk_cols # <<>>
           THEN /\ pk_values' = [pk_values EXCEPT
                                   ![table_name] = Append(@, pk_val)]
                /\ rows' = Append(rows, done)
                /\ nextUuid' = IF got = NoneVal /\ is_uuid_col(pk_col)
                               THEN nextUuid + 1 ELSE nextUuid
           ELSE /\ rows' = Append(rows, row)
                /\ UNCHANGED <<pk_values, nextUuid>>
    /\ i' = i + 1
    /\ row' = EmptyMap
    /\ colIdx' = 1
    /\ pc' = IF i + 1 = NUM_ROWS THEN "write" ELSE "col"
    /\ UNCHANGED <<schema, explicit, ordered_tables, tblIdx, files, stdout>>
    /\ UNCHANGED <<loaderVars, stringVars>>

\* write_csv_for_table losing the last row.
write_csv_for_table_DropsLast(fs, name, cols, rs) ==
    LET fieldnames == [k \in DOMAIN cols |-> cols[k].name]
        line(r) == [k \in DOMAIN fieldnames |-> row_to_csv_value(r[fieldnames[k]])]
    IN  Put(fs, name, [header |-> fieldnames,
                       lines |-> [k \in 1..(Len(rs) - 1) |-> line(rs[k])]])

\* write_csv_for_table(table_name, columns, rows)
write_csv_for_table(fs, name, cols, rs) ==
    LET fieldnames == [k \in DOMAIN cols |-> cols[k].name]
        line(r) == [k \in DOMAIN fieldnames |-> row_to_csv_value(r[fieldnames[k]])]
    IN  Put(fs, name, [header |-> fieldnames,
                       lines |-> [k \in DOMAIN rs |-> line(rs[k])]])

\* The tail of the loop body for a table: its file is written.
WriteCsv ==
    /\ pc = "write"
    /\ files' = write_csv_for_table(files, table_name, columns, rows)
    /\ stdout' = Append(stdout, <<"Wrote rows", table_name>>)
    /\ tblIdx' = tblIdx + 1
    /\ pc' = "table"
    /\ UNCHANGED <<schema, explicit, ordered_tables, i, colIdx, row, rows,
                   pk_values, nextUuid>>
    /\ UNCHANGED <<loaderVars, stringVars>>

\* main, after the loop.
Finish ==
    /\ pc = "table"
    /\ tblIdx > Len(ordered_tables)
    /\ pc' = "done"
    /\ stdout' = Append(stdout, <<"Done">>)
    /\ UNCHANGED <<schema, explicit, ordered_tables, tblIdx, i, colIdx, row,
                   rows, pk_values, nextUuid, files>>
    /\ UNCHANGED <<loaderVars, stringVars>>

----------------------------------------------------------------------------
\* The loader: import_data_to_db.py, run as a script

\* A text of n characters.
Text(n) == [k \in 1..n |-> 97]

\* str(float("nan"))
NanText == <<110, 97, 110>>

\* A cell of a DataFrame: NaN, or a text.
NaN == [nan |-> TRUE, text |-> <<>>]
Obj(t) == [nan |-> FALSE, text |-> t]

\* A value of the database: NULL, or a text.
NULL == [null |-> TRUE, text |-> <<>>]
Stored(t) == [null |-> FALSE, text |-> t]

\* What inspector.get_columns gives for the tables the loader names: the key
\* and one bounded string column of each, as models.py declares them.
columns_info(table) ==
    IF table = "companies"
    THEN << [name |-> "company_id", type |-> "UUID", limit |-> 0],
            [name |-> "pan", type |-> "VARCHAR", limit |-> 10] >>
    ELSE IF table = "employees"
    THEN << [name |-> "employee_id", type |-> "UUID", limit |-> 0],
            [name |-> "pan", type |-> "VARCHAR", limit |-> 10] >>
    ELSE << [name |-> "department_id", type |-> "UUID", limit |-> 0],
            [name |-> "name", type |-> "VARCHAR", limit |-> 100] >>

\* varchar_limits of load_csv_to_db: column name -> limit
varchar_limits(table) ==
    LET vc == {c \in Range(columns_info(table)) : c.type = "VARCHAR"}
    IN  [n \in {c.name : c \in vc} |->
            (CHOOSE c \in vc : c.name = n).limit]

\* pd.read_csv: an empty cell is read as NaN.
read_csv(file) ==
    [columns |-> file.header,
     data |-> [r \in DOMAIN file.lines |->
                 [k \in DOMAIN file.lines[r] |->
                     IF file.lines[r][k] = <<>> THEN NaN
                     ELSE Obj(file.lines[r][k])]]]

\* astype(str) of a cell
astype_str(v) == IF v.nan THEN NanText ELSE v.text

\* x[:limit] if len(x) > limit else x
trim(x, limit) == IF Len(x) > limit THEN SubSeq(x, 1, limit) ELSE x

\* The trimming loop of load_csv_to_db over varchar_limits.
trim_columns(df, limits) ==
    [df EXCEPT !.data =
        [r \in DOMAIN df.data |->
            [k \in DOMAIN df.data[r] |->
                IF df.columns[k] \in DOMAIN limits
                THEN Obj(trim(astype_str(df.data[r][k]), limits[df.columns[k]]))
                ELSE df.data[r][k]]]]

\* The rows df.to_sql inserts: NaN goes in as NULL.
to_sql(df) ==
    [r \in DOMAIN df.data |->
        [k \in DOMAIN df.data[r] |->
            IF df.data[r][k].nan THEN NULL ELSE Stored(df.data[r][k].text)]]

\* The rows load_csv_to_db(file_path, table_name) hands to the database.
load_csv_to_db(file, table) ==
    to_sql(trim_columns(read_csv(file), varchar_limits(table)))

\* get_tables_in_order as import_data_to_db.py defines it, over the one it
\* imports from models.
loader_get_tables_in_order == <<"companies", "employees", "departments">>

\* The components of a connection string.
Url(u, p, h, po, d) == <<"postgresql+psycopg2", u, p, h, po, d>>

\* The literal of DATABASE_URL; its components are named, not copied.
DATABASE_URL ==
    Url("literal user", "literal password", "literal host", "literal port",
        "literal database")

\* The environments sampled: the one that spells the literal's components,
\* and, for each parameter, one that differs from it in that parameter alone.
LiteralEnv ==
    [USER |-> "literal user", PASSWORD |-> "literal password",
     HOST |-> "literal host", PORT |-> "literal port",
     DATABASE |-> "literal database"]

Environments ==
    {LiteralEnv} \cup
    {[LiteralEnv EXCEPT ![k] = "other"] : k \in DOMAIN LiteralEnv}

\* The cells sampled for a column: empty, short, and for a bounded string
\* also a text of exactly the limit and one a character longer.
Cells(c) ==
    IF c.type = "VARCHAR"
    THEN {<<>>, Text(3), Text(c.limit), Text(c.limit + 1)}
    ELSE {<<>>, Text(3)}

\* The files sampled for a table: its columns as header, one line.
CsvFiles(table) ==
    LET info == columns_info(table)
    IN  {[header |-> [k \in DOMAIN info |-> info[k].name],
          lines |-> <<line>>] :
            line \in {l \in [DOMAIN info -> UNION {Cells(c) : c \in Range(info)}] :
                        \A k \in DOMAIN info : l[k] \in Cells(info[k])}}

\* The folders sampled: any of the tables' files may be missing.
Folders ==
    UNION {{f \in [present -> UNION {CsvFiles(t) : t \in present}] :
              \A t \in present : f[t] \in CsvFiles(t)} :
           present \in SUBSET Range(loader_get_tables_in_order)}

\* The generator, in a process where only the loader runs.
GenIdle ==
    /\ schema = <<>>
    /\ explicit = "list"
    /\ pc = "idle"
    /\ ordered_tables = <<>>
    /\ tblIdx = 0
    /\ i = 0
    /\ colIdx = 0
    /\ row = EmptyMap
    /\ rows = <<>>
    /\ pk_values = EmptyMap
    /\ nextUuid = 1
    /\ files = EmptyMap
    /\ stdout = <<>>

\* The loader, in a process where only the generator runs.
LoaderIdle ==
    /\ environ = LiteralEnv
    /\ engine = <<>>
    /\ csv_folder = EmptyMap
    /\ database = EmptyMap
    /\ ldPc = "idle"
    /\ ldIdx = 0
    /\ ldStdout = <<>>

LoaderInit ==
    /\ GenIdle
    /\ StringIdle
    /\ environ \in Environments
    /\ engine = <<>>
    /\ csv_folder \in Folders
    /\ database = [t \in Range(loader_get_tables_in_order) |-> <<>>]
    /\ ldPc = "import"
    /\ ldIdx = 0
    /\ ldStdout = <<>>

\* The table load_all_csvs has reached.
table == loader_get_tables_in_order[ldIdx]

\* The module body up to the call of load_all_csvs: the environment is read,
\* the engine is created from DATABASE_URL.
LoaderStart ==
    /\ ldPc = "import"
    /\ engine' = DATABASE_URL
    /\ ldIdx' = 1
    /\ ldPc' = "loop"
    /\ UNCHANGED <<environ, csv_folder, database, ldStdout>>
    /\ UNCHANGED <<genVars, stringVars>>

\* The rows of a table after an insert that raised and kept what it had sent.
rollback_KeepsRows(before, inserted) == before \o inserted

\* The rows of a table after an insert that raised: to_sql inserts inside one
\* transaction, which is rolled back.
rollback(before, inserted) == before

\* A pass of the loop of load_all_csvs for a table whose file exists:
\* load_csv_to_db either returns or raises, and nothing catches what it raises.
LoadTable ==
    /\ ldPc = "loop"
    /\ ldIdx <= Len(loader_get_tables_in_order)
    /\ table \in DOMAIN csv_folder
    /\ LET inserted == load_csv_to_db(csv_folder[table], table)
       IN  \E raised \in BOOLEAN :
             IF raised
             THEN /\ database' = [database EXCEPT
                                    ![table] = rollback(@, inserted)]
                  /\ ldStdout' = Append(ldStdout, <<"Loading", table>>)
                  /\ ldPc' = "failed"
                  /\ UNCHANGED ldIdx
             ELSE /\ database' = [database EXCEPT ![table] = @ \o inserted]
                  /\ ldStdout' = ldStdout \o << <<"Loading", table>>,
                                                <<"Inserted", table>> >>
                  /\ ldIdx' = ldIdx + 1
                  /\ UNCHANGED ldPc
    /\ UNCHANGED <<environ, engine, csv_folder>>
    /\ UNCHANGED <<genVars, stringVars>>

\* A missing file that ends the loop.
SkipTable_Stops ==
    /\ ldPc = "loop"
    /\ ldIdx <= Len(loader_get_tables_in_order)
    /\ table \notin DOMAIN csv_folder
    /\ ldStdout' = Append(ldStdout, <<"No CSV found", table>>)
    /\ ldPc' = "done"
    /\ UNCHANGED <<environ, engine, csv_folder, database, ldIdx>>
    /\ UNCHANGED <<genVars, stringVars>>

\* A pass of the loop of load_all_csvs for a table whose file is missing.
SkipTable ==
    /\ ldPc = "loop"
    /\ ldIdx <= Len(loader_get_tables_in_order)
    /\ table \notin DOMAIN csv_folder
    /\ ldStdout' = Append(ldStdout, <<"No CSV found", table>>)
    /\ ldIdx' = ldIdx + 1
    /\ UNCHANGED <<environ, engine, csv_folder, database, ldPc>>
    /\ UNCHANGED <<genVars, stringVars>>

\* load_all_csvs returns, the script ends.
LoaderFinish ==
    /\ ldPc = "loop"
    /\ ldIdx > Len(loader_get_tables_in_order)
    /\ ldPc' = "done"
    /\ UNCHANGED <<environ, engine, csv_folder, database, ldIdx, ldStdout>>
    /\ UNCHANGED <<genVars, stringVars>>

LoaderNext == LoaderStart \/ LoadTable \/ SkipTable \/ LoaderFinish

vars == <<genVars, loaderVars, stringVars>>

Init == GenInit /\ LoaderIdle /\ StringIdle

Next == Start \/ BeginTable \/ GenColumn \/ EndRow \/ WriteCsv \/ Finish

Spec == Init /\ [][Next]_vars

LoaderSpec == LoaderInit /\ [][LoaderNext]_vars

----------------------------------------------------------------------------
\* The text of a string column: lines 164-199 of generate_value_for_column

\* sub in s
Contains(sub, s) ==
    \E k \in 0..(Len(s) - Len(sub)) : SubSeq(s, k + 1, k + Len(sub)) = sub

\* s.endswith(sub)
EndsWith(s, sub) ==
    Len(sub) <= Len(s) /\ SubSeq(s, Len(s) - Len(sub) + 1, Len(s)) = sub

\* s[:n]
Slice(s, n) == IF Len(s) > n THEN SubSeq(s, 1, n) ELSE s

\* Every String(L) column of models.py; none of them has a foreign key.
StringColumns ==
    {
      StringCol("addresses", "address_line1", 255),
      StringCol("addresses", "address_line2", 255),
      StringCol("addresses", "city", 100),
      StringCol("addresses", "state", 100),
      StringCol("addresses", "country", 100),
      StringCol("addresses", "pin_code", 10),
      StringCol("company_gstins", "gstin", 15),
      StringCol("companies", "name", 255),
      StringCol("companies", "cin", 21),
      StringCol("companies", "pan", 10),
      StringCol("roles", "role_name", 50),
      StringCol("departments", "name", 100),
      StringCol("accounts", "code", 20),
      StringCol("accounts", "name", 255),
      StringCol("accounts", "type", 20),
      StringCol("transactions", "type", 10),
      StringCol("transactions", "reference_type", 50),
      StringCol("customers", "name", 255),
      StringCol("customers", "gstin", 15),
      StringCol("customers", "city", 100),
      StringCol("customers", "state", 100),
      StringCol("customers", "country", 100),
      StringCol("customers", "contact_person", 100),
      StringCol("customers", "email", 255),
      StringCol("customers", "phone", 20),
      StringCol("vendors", "name", 255),
      StringCol("vendors", "gstin", 15),
      StringCol("vendors", "city", 100),
      StringCol("vendors", "state", 100),
      StringCol("vendors", "country", 100),
      StringCol("vendors", "contact_person", 100),
      StringCol("vendors", "email", 255),
      StringCol("vendors", "phone", 20),
      StringCol("products", "name", 255),
      StringCol("products", "sku", 100),
      StringCol("products", "hsn_code", 10),
      StringCol("products", "unit", 20),
      StringCol("sales_orders", "status", 50),
      StringCol("purchase_orders", "status", 50),
      StringCol("invoices", "status", 20),
      StringCol("payables", "status", 20),
      StringCol("fixed_assets", "name", 255),
      StringCol("fixed_assets", "asset_number", 50),
      StringCol("fixed_assets", "asset_class", 100),
      StringCol("fixed_assets", "depreciation_method", 50),
      StringCol("fixed_assets", "status", 50),
      StringCol("employees", "employee_code", 50),
      StringCol("employees", "name", 255),
      StringCol("employees", "pan", 10),
      StringCol("employees", "pf_number", 20),
      StringCol("employees", "esi_number", 20),
      StringCol("employees", "uan", 12),
      StringCol("employees", "email", 255),
      StringCol("employees", "phone", 20),
      StringCol("employees", "city", 100),
      StringCol("employees", "state", 100),
      StringCol("employees", "country", 100),
      StringCol("employees", "status", 20),
      StringCol("payroll", "payment_status", 20),
      StringCol("audit_logs", "action", 255),
      StringCol("audit_logs", "table_name", 100),
      StringCol("audit_logs", "ip_address", 45),
      StringCol("audit_logs", "user_agent", 255),
      StringCol("subscriptions", "plan_type", 50),
      StringCol("subscriptions", "payment_status", 50),
      StringCol("subscriptions", "razorpay_payment_id", 255),
      StringCol("payments", "status", 50),
      StringCol("payments", "razorpay_order_id", 255),
      StringCol("payments", "razorpay_payment_id", 255),
      StringCol("email_verifications", "email", 255),
      StringCol("email_verifications", "otp", 6),
      StringCol("phone_verifications", "phone_number", 20),
      StringCol("phone_verifications", "otp", 6),
      StringCol("file_exports", "user_email", 255),
      StringCol("file_exports", "file_type", 10),
      StringCol("file_exports", "status", 20),
      StringCol("file_exports", "file_path", 255)
    }

\* A text of len characters that the call of Faker named by kind returned.
FakeStr(kind, len) == [t |-> "str", lit |-> kind, n |-> len, s |-> <<>>]

\* A text whose characters are known.
Word(w) == FakeStr(w, Len(w))

\* fake.bothify(text): every ? becomes a letter, every # a digit.
bothify(text) == FakeStr("bothify", Len(text))

\* v[:n] for a text v
SliceVal(v, n) == [v EXCEPT !.n = IF @ > n THEN n ELSE @]

\* The lengths sampled for the texts of Faker's providers; how long these
\* texts can get is decided by Faker, not by the generator.
ProviderLengths == {5, 10}

\* A call of one of Faker's providers.
provider(kind) == {FakeStr(kind, len) : len \in ProviderLengths}

\* fake.text(max_nb_chars=m): a text of at most m characters.
fake_text(m) == {FakeStr("text", len) : len \in {5, m}}

statuses ==
    {"active", "inactive", "pending", "confirmed", "draft", "paid", "unpaid",
     "cancelled"}

types ==
    {"asset", "liability", "expense", "income", "equity", "debit", "credit"}

\* The part of generate_value_for_column for strings: the values it can
\* return for a column named col_name of declared length length.
string_for_column(col_name, length) ==
    IF col_name = "name" \/ EndsWith(col_name, "_name")
       \/ Contains("company", col_name) \/ Contains("vendor", col_name)
    THEN IF Contains("company", col_name) THEN provider("company")
         ELSE provider("name")
    ELSE IF Contains("email", col_name) THEN provider("safe_email")
    ELSE IF Contains("phone", col_name) \/ Contains("mobile", col_name)
            \/ Contains("contact", col_name)
    THEN provider("phone_number")
    ELSE IF Contains("address", col_name) \/ Contains("line", col_name)
            \/ Contains("street", col_name)
    THEN provider("street_address")
    ELSE IF Contains("city", col_name) THEN provider("city")
    ELSE IF Contains("state", col_name) THEN provider("state")
    ELSE IF Contains("country", col_name) THEN provider("country")
    ELSE IF Contains("pin", col_name) \/ Contains("postal", col_name)
            \/ Contains("postcode", col_name)
    THEN provider("postcode")
    ELSE IF Contains("gst", col_name) \/ Contains("pan", col_name)
            \/ Contains("hsn", col_name) \/ Contains("cin", col_name)
    THEN {SliceVal(bothify("??#########"), 15)}
    ELSE IF Contains("status", col_name) THEN {Word(w) : w \in statuses}
    ELSE IF Contains("type", col_name) THEN {Word(w) : w \in types}
    ELSE IF Contains("description", col_name) \/ Contains("notes", col_name)
    THEN provider("paragraph")
    ELSE IF Contains("code", col_name) \/ Contains("sku", col_name)
            \/ Contains("asset_number", col_name)
    THEN {bothify("???-#####")}
    ELSE IF Contains("otp", col_name)
    THEN {IntVal(k) : k \in randint(100000, 999999)}
    ELSE IF length > 0
    THEN {SliceVal(v, length) : v \in fake_text(IF length < 200 THEN length ELSE 200)}
    ELSE provider("word")

\* The number of characters of a value in its file: len(str(v)).
TextLen(v) == IF v.t = "int" THEN Len(Digits(v.n)) ELSE v.n

StringInit ==
    /\ GenIdle
    /\ LoaderIdle
    /\ str_col \in StringColumns
    /\ str_val = NoneVal
    /\ strPc = "call"

\* generate_value_for_column(col, table_name) called for str_col: the column
\* has no foreign key and none of the types tested before line 164.
Synthesize ==
    /\ strPc = "call"
    /\ str_val' \in string_for_column(str_col.name, str_col.length)
    /\ strPc' = "returned"
    /\ UNCHANGED str_col
    /\ UNCHANGED <<genVars, loaderVars>>

StringNext == Synthesize

StringSpec == StringInit /\ [][StringNext]_vars

----------------------------------------------------------------------------
\* main called again in the process that has run it

\* The calls of main a process makes at most.
MaxPasses == 2

\* The calls of main that have returned.
passes == Cardinality({k \in DOMAIN stdout : stdout[k] = <<"Done">>})

\* The schemas a process runs main over more than once.
RerunSchemas == {ParentChild, SubSchema({"companies", "departments"})}

RerunInit ==
    /\ GenInit
    /\ LoaderIdle
    /\ StringIdle
    /\ schema \in RerunSchemas
    /\ explicit = "list"

\* main is called again: the module's pk_values, the files on disk and what
\* was printed are as the last call left them, the locals are new.
Rerun ==
    /\ pc = "done"
    /\ passes < MaxPasses
    /\ pc' = "main"
    /\ ordered_tables' = <<>>
    /\ tblIdx' = 0
    /\ i' = 0
    /\ colIdx' = 0
    /\ row' = EmptyMap
    /\ rows' = <<>>
    /\ UNCHANGED <<schema, explicit, pk_values, nextUuid, files, stdout>>
    /\ UNCHANGED <<loaderVars, stringVars>>

RerunNext == Next \/ Rerun

RerunSpec == RerunInit /\ [][RerunNext]_vars

----------------------------------------------------------------------------
\* Shared vocabulary of the properties

\* main is inside the loop body of the table at tblIdx.
InTable == pc \in {"col", "rowend", "write"}

\* The foreign-key columns of a table.
FkColumns(t) == {c \in Range(t.columns) : Len(c.foreign_keys) > 0}

\* The table a foreign-key column takes its values from.
RefTable(c) == c.foreign_keys[1][1]

\* The pool of table r has no key to offer: r has no pool yet, or an empty one.
PoolEmpty(r) == r \notin DOMAIN pk_values \/ pk_values[r] = <<>>

\* Every table a table of s references, other than itself, is listed before it.
CorrectOrder(s) ==
    \A a \in DOMAIN s : \A c \in FkColumns(s[a]) :
        RefTable(c) # s[a].name => \E b \in 1..(a - 1) : s[b].name = RefTable(c)

\* The place of column name cn in the columns of table t.
ColPos(t, cn) == CHOOSE k \in DOMAIN t.columns : t.columns[k].name = cn

\* The table of the running schema named n.
TableNamed(n) == CHOOSE t \in Range(schema) : t.name = n

\* The identifiers held anywhere in the generator's memory.
UsedUuids ==
    {v.n : v \in {w \in UNION ({Range(pk_values[t]) : t \in DOMAIN pk_values}
                               \cup {Range(rows[r]) : r \in DOMAIN rows}
                               \cup {Range(row)}) : w.lit = "uuid"}}

----------------------------------------------------------------------------
\* C1: when the schema lists every referenced table before the tables that
\* reference it, no foreign-key column is ever synthesized against an empty or
\* missing pool (the fallback path is not taken), and every foreign-key value
\* of every generated row, in memory or in a written file, is one of the keys
\* in the pool of the table it references.
C1_FkValuesFromParentPool ==
    CorrectOrder(schema) =>
        /\ pc = "col" /\ Len(columns[colIdx].foreign_keys) > 0
             /\ ~(columns[colIdx].primary_key /\ is_integer_col(columns[colIdx]))
             => ~PoolEmpty(RefTable(columns[colIdx]))
        /\ InTable =>
             \A c \in FkColumns(tbl) :
                /\ \A r \in DOMAIN rows :
                      ~PoolEmpty(RefTable(c))
                      /\ rows[r][c.name] \in Range(pk_values[RefTable(c)])
                /\ c.name \in DOMAIN row =>
                      ~PoolEmpty(RefTable(c))
                      /\ row[c.name] \in Range(pk_values[RefTable(c)])
        /\ \A n \in DOMAIN files : \A c \in FkColumns(TableNamed(n)) :
             \A k \in DOMAIN files[n].lines :
                files[n].lines[k][ColPos(TableNamed(n), c.name)]
                    \in {row_to_csv_value(p) : p \in Range(pk_values[RefTable(c)])}

----------------------------------------------------------------------------
\* C2: in a pass over tables of models.py in the order get_tables_in_order()
\* gives, every table referenced by another table comes strictly before it in
\* the sequence, and while a table is being generated the pool of every other
\* table it references already holds all NUM_ROWS keys.
C2_ParentsCompleteBeforeChild ==
    schema \in ModelsSchemas =>
        /\ CorrectOrder(get_tables_in_order)
        /\ InTable =>
             \A c \in FkColumns(tbl) :
                RefTable(c) # table_name =>
                   /\ \E b \in 1..(tblIdx - 1) :
                         ordered_tables[b].name = RefTable(c)
                   /\ RefTable(c) \in DOMAIN pk_values
                   /\ Len(pk_values[RefTable(c)]) = NUM_ROWS

\* The first column of the first row of a models.py table that references
\* another table is about to be synthesized.
C2_Witness ==
    /\ schema \in ModelsSchemas
    /\ pc = "col" /\ i = 0 /\ colIdx = 1 /\ rows = <<>>
    /\ \E c \in FkColumns(tbl) :
          RefTable(c) # table_name /\ Len(pk_values[RefTable(c)]) = NUM_ROWS

----------------------------------------------------------------------------
\* C3: for Parent (UUID key, no foreign key) and Child (foreign key to
\* Parent) generated in that order, the parent keys are pairwise distinct and
\* every child row's foreign-key value is one of them; once the pass is over
\* there are NUM_ROWS parent keys, the ones written to parent.csv, and
\* NUM_ROWS child rows.
C3_ParentChildKeys ==
    schema = ParentChild =>
        /\ "parent" \in DOMAIN pk_values =>
             \A a, b \in DOMAIN pk_values["parent"] :
                a # b => pk_values["parent"][a] # pk_values["parent"][b]
        /\ InTable /\ table_name = "child" =>
             /\ \A r \in DOMAIN rows :
                   rows[r]["parent_id"] \in Range(pk_values["parent"])
             /\ "parent_id" \in DOMAIN row =>
                   row["parent_id"] \in Range(pk_values["parent"])
        /\ pc = "done" =>
             /\ Len(files["parent"].lines) = NUM_ROWS
             /\ Len(files["child"].lines) = NUM_ROWS
             /\ \A a, b \in 1..NUM_ROWS :
                   a # b => files["parent"].lines[a][1] # files["parent"].lines[b][1]
             /\ \A k \in 1..NUM_ROWS :
                   files["child"].lines[k][2]
                       \in {files["parent"].lines[a][1] : a \in 1..NUM_ROWS}

\* The parent/child pass is over and two child rows reference different parents.
C3_Witness ==
    /\ schema = ParentChild
    /\ pc = "done"
    /\ files["child"].lines[1][2] # files["child"].lines[2][2]

----------------------------------------------------------------------------
\* C4: for every table with an integer primary key, the key of the row of
\* index r is r + 1: the rows built so far carry 1, 2, ... in row order, and
\* the written file carries exactly 1, ..., NUM_ROWS.
C4_IntegerKeysSequential ==
    /\ InTable =>
         \A c \in Range(columns) :
            c.primary_key /\ is_integer_col(c) =>
               \A r \in DOMAIN rows : rows[r][c.name] = IntVal(r)
    /\ \A n \in DOMAIN files :
         \A k \in DOMAIN TableNamed(n).columns :
            LET c == TableNamed(n).columns[k]
            IN  c.primary_key /\ is_integer_col(c) =>
                   /\ Len(files[n].lines) = NUM_ROWS
                   /\ \A r \in 1..NUM_ROWS :
                         files[n].lines[r][k] = Str(IntVal(r))

\* A file of a table with an integer primary key has been written.
C4_Witness ==
    /\ schema = IntegerKeys
    /\ "entry" \in DOMAIN files
    /\ files["entry"].lines[NUM_ROWS][1] = Str(IntVal(NUM_ROWS))

----------------------------------------------------------------------------
\* Reading a formatted decimal

\* The place of the decimal point in chars, 0 when there is none.
DotPos(chars) ==
    IF \E k \in DOMAIN chars : chars[k] = DOT
    THEN CHOOSE k \in DOMAIN chars : chars[k] = DOT
    ELSE 0

\* The number of characters after the decimal point.
FracLen(chars) == IF DotPos(chars) = 0 THEN 0 ELSE Len(chars) - DotPos(chars)

\* The characters before the decimal point.
WholePart(chars) ==
    IF DotPos(chars) = 0 THEN chars ELSE SubSeq(chars, 1, DotPos(chars) - 1)

\* The number a text of digits denotes.
RECURSIVE NumberOf(_)
NumberOf(s) ==
    IF s = <<>> THEN 0 ELSE NumberOf(SubSeq(s, 1, Len(s) - 1)) * 10 + s[Len(s)]

\* The scale a numeric column's values are synthesized with.
ScaleOf(c) == IF c.scale # <<>> THEN c.scale[1] ELSE DefaultScale

\* chars is a plain decimal with exactly S digits after the point and a whole
\* part in 0..99999.
PlainDecimal(chars, S) ==
    /\ \A k \in DOMAIN chars : chars[k] \in 0..9 \/ k = DotPos(chars)
    /\ FracLen(chars) = S
    /\ WholePart(chars) # <<>>
    /\ NumberOf(WholePart(chars)) \in 0..MaxWhole

----------------------------------------------------------------------------
\* C5: every value synthesized for a decimal column of scale S (2 when the
\* column declares none) is written with exactly S digits after the decimal
\* point and a whole part in 0..99999.
C5_DecimalHasDeclaredScale ==
    InTable =>
        \A c \in Range(columns) :
            is_numeric_col(c) /\ Len(c.foreign_keys) = 0 =>
               /\ \A r \in DOMAIN rows : PlainDecimal(rows[r][c.name].s, ScaleOf(c))
               /\ c.name \in DOMAIN row => PlainDecimal(row[c.name].s, ScaleOf(c))

----------------------------------------------------------------------------
\* C6: every file written has as its header the table's column names in
\* declared order and holds exactly NUM_ROWS lines, each with one cell per
\* declared column; every row built holds one value per declared column; and
\* when the pass is over there is one file per table of the schema.
C6_FileStructure ==
    /\ \A n \in DOMAIN files :
         LET t == TableNamed(n)
         IN  /\ files[n].header = [k \in DOMAIN t.columns |-> t.columns[k].name]
             /\ Len(files[n].lines) = NUM_ROWS
             /\ \A k \in DOMAIN files[n].lines :
                   DOMAIN files[n].lines[k] = DOMAIN t.columns
    /\ InTable =>
         \A r \in DOMAIN rows :
            DOMAIN rows[r] = {c.name : c \in Range(columns)}
    /\ pc = "done" => DOMAIN files = {t.name : t \in Range(schema)}

\* The pass over a two-table schema is over and both files are there.
C6_Witness ==
    /\ pc = "done"
    /\ Cardinality(DOMAIN files) = 2
    /\ \A n \in DOMAIN files : Len(files[n].lines) = NUM_ROWS

----------------------------------------------------------------------------
\* The first primary-key column of table t (t has one).
FirstPk(t) ==
    t.columns[CHOOSE k \in DOMAIN t.columns :
                 /\ t.columns[k].primary_key
                 /\ \A j \in 1..(k - 1) : ~t.columns[j].primary_key]

HasPk(t) == \E c \in Range(t.columns) : c.primary_key

\* C7: while a table with a primary key is generated its pool is the sequence
\* of the first-primary-key values of the rows built so far, in row order;
\* when its generation is complete the pool holds exactly NUM_ROWS keys, each
\* the value stored in (and written for) the corresponding row.
C7_PoolIsRowKeys ==
    /\ InTable /\ HasPk(tbl) =>
         /\ pk_values[table_name] =
               [k \in DOMAIN rows |-> rows[k][FirstPk(tbl).name]]
         /\ pc = "write" => Len(pk_values[table_name]) = NUM_ROWS
    /\ \A n \in DOMAIN files :
         HasPk(TableNamed(n)) =>
            /\ Len(pk_values[n]) = NUM_ROWS
            /\ \A k \in 1..NUM_ROWS :
                  files[n].lines[k][ColPos(TableNamed(n), FirstPk(TableNamed(n)).name)]
                      = row_to_csv_value(pk_values[n][k])

\* A table with a composite primary key has been generated and written.
C7_Witness ==
    /\ "user_company_roles" \in DOMAIN files
    /\ Len(pk_values["user_company_roles"]) = NUM_ROWS
    /\ pk_values["user_company_roles"][1].lit = "uuid"

----------------------------------------------------------------------------
IsPrefix(s, t) == Len(s) <= Len(t) /\ s = SubSeq(t, 1, Len(s))

\* A step leaves every pool in place and only extends it, and changes no pool
\* but that of the table being generated.
PoolFrame ==
    /\ \A t \in DOMAIN pk_values :
          t \in DOMAIN pk_values' /\ IsPrefix(pk_values[t], pk_values'[t])
    /\ \A t \in DOMAIN pk_values' :
          ~(pc \in {"table", "col", "rowend", "write"}
            /\ tblIdx \in DOMAIN ordered_tables /\ t = table_name)
          => t \in DOMAIN pk_values /\ pk_values'[t] = pk_values[t]

\* C8: no table has a key in the pool when the pass starts; every step only
\* appends to pools, and only to the pool of the table being generated.
C8_PoolLifecycle ==
    /\ [](pc = "main" => \A t \in DOMAIN pk_values : pk_values[t] = <<>>)
    /\ [][PoolFrame]_vars

\* The second table is being generated, with keys of its own, after the first
\* table's pool was completed.
C8_Witness ==
    /\ pc = "rowend" /\ tblIdx = 2 /\ i >= 1
    /\ Len(pk_values[ordered_tables[1].name]) = NUM_ROWS
    /\ Len(pk_values[table_name]) = i

----------------------------------------------------------------------------
\* C9: the value of a self-referencing foreign-key column is absent or the
\* key of a strictly earlier row of the same table in the same pass; the first
\* row's value is absent.
C9_SelfReferenceEarlierRowOrNull ==
    InTable /\ HasPk(tbl) =>
        \A c \in FkColumns(tbl) :
            RefTable(c) = table_name =>
               \A r \in DOMAIN rows :
                  /\ \/ rows[r][c.name] = NoneVal
                     \/ \E q \in 1..(r - 1) :
                           rows[q][FirstPk(tbl).name] = rows[r][c.name]
                  /\ r = 1 => rows[r][c.name] = NoneVal

----------------------------------------------------------------------------
\* A foreign-key column is about to be synthesized against a pool with no key.
AtFallback ==
    /\ pc = "col"
    /\ Len(columns[colIdx].foreign_keys) > 0
    /\ ~(columns[colIdx].primary_key /\ is_integer_col(columns[colIdx]))
    /\ PoolEmpty(RefTable(columns[colIdx]))

FreshUuid(v) == v.t = "str" /\ v.lit = "uuid" /\ v.n \notin UsedUuids

BoundedInt(v) == v.t = "int" /\ v.n \in 1..(NUM_ROWS * 10)

\* C10 as stated: the fallback value is a fresh UUID for an identifier column
\* and a bounded random integer for a column of every other type.
C10_FallbackUuidElseInteger ==
    AtFallback =>
        \A v \in generate_value_for_column(columns[colIdx], pk_values, nextUuid) :
            IF is_uuid_col(columns[colIdx]) THEN FreshUuid(v) ELSE BoundedInt(v)

\* C10, amended: the fallback value is a fresh UUID for an identifier column,
\* an integer in 1..NUM_ROWS*10 for an integer column, and absent (None) for
\* a column of any other type.
C10_FallbackByType ==
    AtFallback =>
        \A v \in generate_value_for_column(columns[colIdx], pk_values, nextUuid) :
            IF is_uuid_col(columns[colIdx]) THEN FreshUuid(v)
            ELSE IF is_integer_col(columns[colIdx]) THEN BoundedInt(v)
            ELSE v = NoneVal

\* Each kind of fallback is reached: a column of a type other than UUID and
\* integer, with a row that already holds a fallback UUID and integer.
C10_Witness ==
    /\ AtFallback
    /\ is_date_col(columns[colIdx])
    /\ "owner_id" \in DOMAIN row /\ row["owner_id"].lit = "uuid"
    /\ "owner_no" \in DOMAIN row /\ row["owner_no"].t = "int"
    /\ row["tag"] = NoneVal

----------------------------------------------------------------------------
\* C11: whenever a foreign-key column is synthesized against a pool with no
\* key (the fallback path), the step records a warning: something is printed.
C11_FallbackIsLogged == [][AtFallback => stdout' # stdout]_vars

----------------------------------------------------------------------------
\* The value synthesized for foreign-key column c was None: c is neither a
\* UUID nor an integer column and the pool it references has had no key.
SynthesizedNone(c) ==
    /\ Len(c.foreign_keys) > 0
    /\ ~is_uuid_col(c) /\ ~is_integer_col(c)
    /\ PoolEmpty(RefTable(c))

\* C12: for a column of any type, a value synthesized as None is kept absent
\* in the row and written as an empty cell, a None in a row is written as an
\* empty cell, and a boolean is written as lowercase true or false.
C12_NoneAndBoolCells ==
    /\ InTable =>
         \A c \in Range(columns) :
            SynthesizedNone(c) =>
               /\ \A r \in DOMAIN rows : rows[r][c.name] = NoneVal
               /\ c.name \in DOMAIN row => row[c.name] = NoneVal
    /\ \A n \in DOMAIN files :
         \A k \in DOMAIN TableNamed(n).columns :
            SynthesizedNone(TableNamed(n).columns[k]) =>
               \A r \in DOMAIN files[n].lines : files[n].lines[r][k] = TextVal("")
    /\ pc = "table" /\ tblIdx > 1 =>
         LET t == ordered_tables[tblIdx - 1]
         IN  \A r \in DOMAIN rows : \A k \in DOMAIN t.columns :
                LET v == rows[r][t.columns[k].name]
                    cell == files[t.name].lines[r][k]
                IN  /\ v = NoneVal => cell = TextVal("")
                    /\ v.t = "bool" =>
                          cell = TextVal(IF v.n = 1 THEN "true" ELSE "false")

----------------------------------------------------------------------------
\* C17: when models offers no usable get_tables_in_order and the fallback
\* ordering cannot be computed, the run stops in main before the loop over the
\* tables: no file has been written, no pool exists, nothing follows.
C17_AbortBeforeAnyWrite ==
    explicit # "list" /\ pc # "main" =>
        /\ pc = "aborted"
        /\ files = EmptyMap
        /\ pk_values = EmptyMap
        /\ ordered_tables = <<>>
        /\ stdout = << <<"Starting CSV generation...">> >>

\* A run whose get_tables_in_order raised has stopped.
C17_Witness ==
    /\ explicit = "raises"
    /\ pc = "aborted"
    /\ Len(schema) = 2

----------------------------------------------------------------------------
\* s and t list the same tables, each once.
SameTables(s, t) ==
    /\ Len(s) = Len(t)
    /\ {x.name : x \in Range(s)} = {x.name : x \in Range(t)}

\* C18: when the explicit ordering is unavailable, get_tables_order returns
\* all tables of the schema, every referenced table before the tables that
\* reference it, and the pass goes on with that order.
C18_FallbackIsTopologicalSort ==
    explicit # "list" /\ pc # "main" =>
        /\ pc # "aborted"
        /\ SameTables(ordered_tables, schema)
        /\ CorrectOrder(ordered_tables)

----------------------------------------------------------------------------
\* The pool column c draws from had no key when the row of number r (from 1)
\* of the table being generated was built.
PoolWasEmpty(c, r) ==
    IF RefTable(c) = table_name THEN r = 1 ELSE PoolEmpty(RefTable(c))

\* The keys column c could draw for the row of number r.
KeysOffered(c, r) ==
    IF RefTable(c) = table_name
    THEN {pk_values[table_name][q] : q \in 1..(r - 1)}
    ELSE Range(pk_values[RefTable(c)])

\* v is a value of the kind the type of column c is dispatched to.
TypeShape(c, v) ==
    CASE is_uuid_col(c) -> v.t = "str" /\ v.lit = "uuid"
      [] is_integer_col(c) -> BoundedInt(v)
      [] is_boolean_col(c) -> v.t = "bool"
      [] is_date_col(c) -> v = TextVal("date")
      [] is_datetime_col(c) -> v = TextVal("datetime")
      [] is_numeric_col(c) -> v.t = "str" /\ v.lit = "chars"
      [] OTHER -> v.t = "str" /\ v.lit = "text"

\* The precedence, for the value v of column c in the row of number r.
ByPrecedence(c, v, r) ==
    IF c.primary_key /\ is_integer_col(c) THEN v = IntVal(r)
    ELSE IF Len(c.foreign_keys) > 0
         THEN IF PoolWasEmpty(c, r)
              THEN IF is_uuid_col(c) \/ is_integer_col(c) THEN TypeShape(c, v)
                   ELSE IF is_numeric_col(c) THEN v = Str(NoneVal)
                   ELSE v = NoneVal
              ELSE IF is_numeric_col(c)
                   THEN v \in {Str(k) : k \in KeysOffered(c, r)}
                   ELSE v \in KeysOffered(c, r)
         ELSE TypeShape(c, v)

\* C20: an integer primary-key column holds row index + 1 even when it
\* carries a foreign key; any other column carrying a foreign key holds a key
\* of the pool it references, whatever its own type (its fallback value when
\* that pool had no key); a column with neither holds a value of its type.
C20_SynthesisPrecedence ==
    InTable /\ HasPk(tbl) =>
        \A c \in Range(columns) :
            /\ \A r \in DOMAIN rows : ByPrecedence(c, rows[r][c.name], r)
            /\ c.name \in DOMAIN row =>
                  ByPrecedence(c, row[c.name], Len(rows) + 1)

\* A row whose integer primary key carries a foreign key holds its row number,
\* and its string foreign-key column holds another key of the integer pool.
C20_Witness ==
    /\ schema = Precedence
    /\ InTable /\ table_name = "ext" /\ Len(rows) = 2
    /\ rows[2]["id"] = IntVal(2)
    /\ rows[2]["base_ref"] = IntVal(1)
    /\ rows[2]["note"] = TextVal("text")

----------------------------------------------------------------------------
\* Properties of the loader

\* The tables of the loader's order, in the order it takes them.
table_order == loader_get_tables_in_order

\* The table named n as models.py declares it.
ModelTable(n) == CHOOSE t \in Range(get_tables_in_order) : t.name = n

\* The loader took the table at place k and its file was there to load.
Loaded(k) ==
    /\ k \in DOMAIN table_order
    /\ table_order[k] \in DOMAIN csv_folder
    /\ k < ldIdx

\* C13: the loader takes the tables in dependency order: when it reaches a
\* table A, every other table B that a foreign key of A references has been
\* taken before A.
C13_LoaderDependencyOrder ==
    (ldPc = "loop" /\ ldIdx \in DOMAIN table_order) =>
        \A c \in FkColumns(ModelTable(table)) :
            RefTable(c) # table =>
                \E k \in 1..(ldIdx - 1) : table_order[k] = RefTable(c)

\* C14: when the insert of a table's rows raises, the run ends there: the
\* table holds none of the rows of its file, no later table of the order has
\* been loaded, and every earlier table whose file was there holds its rows.
C14_FailureStopsRun ==
    ldPc = "failed" =>
        /\ table \in DOMAIN csv_folder
        /\ database[table] = <<>>
        /\ \A k \in DOMAIN table_order :
             /\ k > ldIdx => database[table_order[k]] = <<>>
             /\ Loaded(k) =>
                  /\ database[table_order[k]] # <<>>
                  /\ Len(database[table_order[k]])
                       = Len(csv_folder[table_order[k]].lines)
        /\ ~ ENABLED LoaderNext

\* A run fails at the second table after the first was loaded.
C14_Witness ==
    /\ ldPc = "failed"
    /\ ldIdx = 2
    /\ database[table_order[1]] # <<>>
    /\ "departments" \in DOMAIN csv_folder

\* C15: every empty cell of a file that was loaded is NULL in the database,
\* in every column, the bounded string columns that are trimmed included.
C15_EmptyCellIsNull ==
    \A k \in DOMAIN table_order :
        Loaded(k) =>
            LET t == table_order[k]
            IN  \A r \in DOMAIN csv_folder[t].lines :
                    \A c \in DOMAIN csv_folder[t].lines[r] :
                        csv_folder[t].lines[r][c] = <<>> =>
                            database[t][r][c] = NULL

\* C16: a table whose file is missing is passed over without an error and
\* without a row, and the tables after it are still taken: the run fails
\* only at a table whose file is there, and ends only after the last table.
C16_MissingFileIsSkipped ==
    /\ ldPc = "failed" => table \in DOMAIN csv_folder
    /\ ldPc = "done" => ldIdx = Len(table_order) + 1
    /\ \A k \in DOMAIN table_order :
         table_order[k] \notin DOMAIN csv_folder =>
             /\ database[table_order[k]] = <<>>
             /\ k < ldIdx =>
                  \E n \in DOMAIN ldStdout :
                      ldStdout[n] = <<"No CSV found", table_order[k]>>
    /\ ldPc = "done" =>
         \A k \in DOMAIN table_order :
             table_order[k] \in DOMAIN csv_folder =>
                 database[table_order[k]] # <<>>

\* A run ends with the first table skipped and the last one loaded.
C16_Witness ==
    /\ ldPc = "done"
    /\ table_order[1] \notin DOMAIN csv_folder
    /\ database[table_order[3]] # <<>>

\* C19: the connection string of the engine is made of the five parameters
\* of the environment, so that runs differing in a parameter differ in it.
C19_UrlFromEnvironment ==
    ldPc \in {"loop", "failed", "done"} =>
        engine = Url(environ.USER, environ.PASSWORD, environ.HOST,
                     environ.PORT, environ.DATABASE)

----------------------------------------------------------------------------
\* The cells of column cn in the file written for table t.
FileColumn(t, cn) ==
    {files[t.name].lines[k][ColPos(t, cn)] : k \in DOMAIN files[t.name].lines}

\* C21: when main has returned, whether from its first call in the process or
\* from a later one, every foreign-key cell in the file of a child table is a
\* key cell in the file of its parent table as that call wrote it, and the
\* pool of every table holds exactly NUM_ROWS keys.
C21_EachPassSelfContained ==
    pc = "done" =>
        \A t \in Range(schema) :
            /\ HasPk(t) => Len(pk_values[t.name]) = NUM_ROWS
            /\ \A c \in FkColumns(t) :
                 RefTable(c) # t.name =>
                     FileColumn(t, c.name)
                         \subseteq FileColumn(TableNamed(RefTable(c)),
                                              FirstPk(TableNamed(RefTable(c))).name)

----------------------------------------------------------------------------
\* C22: the value synthesized for a String(L) column of models.py that has no
\* foreign key is at most L characters long, whichever branch of the
\* column-name heuristics returned it.
C22_StringFitsDeclaredLength ==
    strPc = "returned" => TextLen(str_val) <= str_col.length

----------------------------------------------------------------------------
\* The column a foreign-key column references.
RefCol(c) == c.foreign_keys[1][2]

\* C23: in every pass over tables of models.py, each foreign-key column
\* references the first primary-key column of its target table, the column
\* whose values the pool records; so a value a foreign-key column took from
\* the pool is a value of the referenced column: one written in that column
\* of the target's file, or, for a self-reference, held in that column by a
\* row of the table being generated.
C23_FkReferencesPooledColumn ==
    schema \in ModelsSchemas =>
        /\ \A t \in Range(schema) : \A c \in FkColumns(t) :
               RefCol(c) = FirstPk(TableNamed(RefTable(c))).name
        /\ InTable =>
             \A r \in DOMAIN rows : \A c \in FkColumns(tbl) :
                 (~PoolEmpty(RefTable(c))
                  /\ rows[r][c.name] \in Range(pk_values[RefTable(c)])) =>
                     IF RefTable(c) = table_name
                     THEN rows[r][c.name]
                              \in {rows[k][RefCol(c)] : k \in DOMAIN rows}
                     ELSE row_to_csv_value(rows[r][c.name])
                              \in FileColumn(TableNamed(RefTable(c)), RefCol(c))

\* The rows of the composite-key table user_company_roles are built and its
\* company_id, a member of the key, holds a pooled key of companies.
C23_Witness ==
    /\ schema \in ModelsSchemas
    /\ InTable /\ table_name = "user_company_roles"
    /\ Len(rows) = NUM_ROWS
    /\ rows[1]["company_id"] \in Range(pk_values["companies"])
    /\ rows[1]["company_id"] # rows[2]["company_id"]

----------------------------------------------------------------------------
\* C24: for every file that was loaded and every column of it that is VARCHAR
\* with limit L in the database, the value inserted is at most L characters
\* long, and a cell of at most L characters is inserted as it is in the file
\* (an empty cell as NULL).
C24_TrimmedToLimit ==
    \A k \in DOMAIN table_order :
        Loaded(k) =>
            LET t == table_order[k]
                file == csv_folder[t]
                limits == varchar_limits(t)
            IN  \A r \in DOMAIN file.lines : \A c \in DOMAIN file.header :
                    file.header[c] \in DOMAIN limits =>
                        LET x == file.lines[r][c]
                            v == database[t][r][c]
                        IN  /\ Len(v.text) <= limits[file.header[c]]
                            /\ Len(x) <= limits[file.header[c]] =>
                                 v = IF x = <<>> THEN NULL ELSE Stored(x)

====
